---- MODULE Spec2Model ----
(* A model of lib/server.js: the Mosca MQTT server (QoS 0 only).          *)
(* Sessions are the `client` objects handed to Server.prototype.serve;    *)
(* the registry is `this.clients`; the topic bus is `this.ascoltatore`;   *)
(* the listener is `this.server`.                                         *)
EXTENDS Integers, Sequences, FiniteSets, TLC

\* ---------------------------------------------------------------- bounds
NumSessions == 2
NumIds == 2
NumTopics == 2
NumPayloads == 1
NumMsgIds == 2
MaxKeepalive == 2
MaxSubs == 2
MaxPending == 1
MaxReg == 2
MaxClose == 2
MaxDisc == 2
MaxStale == 1

Sessions == 1..NumSessions
\* Client ids stand for non-numeric strings ("c1", "c2"): Object.keys
\* lists such keys in insertion order.
Ids == 1..NumIds
Topics == 1..NumTopics
Payloads == 1..NumPayloads
MsgIds == 1..NumMsgIds
QosLevels == 0..1
Keepalives == {0, MaxKeepalive}

NoId == 0
NoClient == 0
NoKeepalive == -1
TimerOff == -1

VARIABLES
  conn,       \* conn[s]: "none" (not accepted), "open" (serve ran, listeners attached), "ended" (stream.end + removeAllListeners)
  id,         \* client.id, NoId while undefined
  keepalive,  \* client.keepalive, NoKeepalive while undefined
  timer,      \* milliseconds until client.timer fires, TimerOff when no timeout is armed
  quiet,      \* milliseconds an open session has sent no connect/pingreq/publish/subscribe/unsubscribe (history)
  clients,    \* this.clients: id -> session or NoClient
  keys,       \* Object.keys(this.clients), in insertion order
  reg,        \* the bus: reg[t][s] = number of registrations of s's forward handler on t
  pending,    \* subscribe/unsubscribe requests whose async.parallel has not completed
  lastDone,   \* the request completed by the last step, as a sequence of at most one record (history)
  listening,  \* this.server is listening
  closeSt,    \* closeSt[c]: "idle", "tearing", "stopping", "done" for the c-th call of close
  closeLeft,  \* tasks of the c-th close whose cb has not run yet
  closeTicks, \* cbs of the c-th close queued by process.nextTick
  onDone,     \* how often the callback of the c-th close was invoked
  activeAt,   \* sessions that were connected and open when the c-th close was called (history)
  disc,       \* number of clientDisconnected notifications per session (history)
  fired,      \* the timer callback the last step ran: at most one [client, quiet] (history)
  stale,      \* stale[s]: live timeouts of s that client.timer no longer refers to
  cleared,    \* the clearTimeout of setUpTimer in the last step: at most one [client, was] (history)
  busDone,    \* the bus task the last step completed: at most one [client, kind, topic, had] (history)
  out         \* packets written and notifications emitted by the last step

vars == <<conn, id, keepalive, timer, quiet, clients, keys, reg, pending,
          lastDone, listening, closeSt, closeLeft, closeTicks, onDone,
          activeAt, disc, fired, stale, cleared, busDone, out>>

\* ---------------------------------------------------------------- helpers
Range(f) == {f[x] : x \in DOMAIN f}

Min(a, b) == IF a < b THEN a ELSE b

Max(a, b) == IF a > b THEN a ELSE b

RemoveKey(ks, k) == SelectSeq(ks, LAMBDA x : x # k)

\* The members of a set of numbers in ascending order.
RECURSIVE SortedSeq(_)
SortedSeq(S) ==
  IF S = {} THEN <<>>
  ELSE LET m == CHOOSE x \in S : \A y \in S : x <= y
       IN <<m>> \o SortedSeq(S \ {m})

\* An output of a step: a packet written to session `to`, or a
\* notification emitted about it.
Msg(to, cmd, arg, list) == [to |-> to, cmd |-> cmd, arg |-> arg, list |-> list]

\* this.clients[id] = client: a new key is appended, an existing key keeps its place.
SetKey(ks, k) == IF k \in Range(ks) THEN ks ELSE Append(ks, k)

\* The delay handed to setTimeout: client.keepalive * 1000 * 5/4.  An
\* undefined keepalive gives NaN, which setTimeout treats like 0.
Delay(k) == IF k = NoKeepalive THEN 0 ELSE (k * 1000 * 5) \div 4

\* One step of the clock: the keepalive window of one second, in milliseconds.
TickMs == Delay(1)

\* ----------------------------------------------------------------- closeConn
\* The part of the state closeConn works on.
Broker == [clients |-> clients, keys |-> keys, timer |-> timer, conn |-> conn,
           disc |-> disc, emitted |-> {}]

\* Server.prototype.closeConn(client)
closeConn(b, s) ==
  LET hasId == id[s] # NoId
  IN [clients |-> IF hasId THEN [b.clients EXCEPT ![id[s]] = NoClient] ELSE b.clients,
      keys    |-> IF hasId THEN RemoveKey(b.keys, id[s]) ELSE b.keys,
      timer   |-> IF hasId THEN [b.timer EXCEPT ![s] = TimerOff] ELSE b.timer,
      conn    |-> [b.conn EXCEPT ![s] = "ended"],
      disc    |-> [b.disc EXCEPT ![s] = Min(@ + 1, MaxDisc)],
      emitted |-> b.emitted \cup {Msg(s, "clientDisconnected", 0, <<>>)}]

\* No callback queued by process.nextTick is waiting: such callbacks run
\* before any packet, timer or listener event is handled.
NoTicks == \A c \in 1..MaxClose : closeTicks[c] = 0

Handles(s) == NoTicks /\ conn[s] = "open"

Init ==
  /\ conn = [s \in Sessions |-> "none"]
  /\ id = [s \in Sessions |-> NoId]
  /\ keepalive = [s \in Sessions |-> NoKeepalive]
  /\ timer = [s \in Sessions |-> TimerOff]
  /\ quiet = [s \in Sessions |-> 0]
  /\ clients = [i \in Ids |-> NoClient]
  /\ keys = <<>>
  /\ reg = [t \in Topics |-> [s \in Sessions |-> 0]]
  /\ pending = <<>>
  /\ lastDone = <<>>
  /\ listening = TRUE
  /\ closeSt = [c \in 1..MaxClose |-> "idle"]
  /\ closeLeft = [c \in 1..MaxClose |-> 0]
  /\ closeTicks = [c \in 1..MaxClose |-> 0]
  /\ onDone = [c \in 1..MaxClose |-> 0]
  /\ activeAt = [c \in 1..MaxClose |-> {}]
  /\ disc = [s \in Sessions |-> 0]
  /\ fired = <<>>
  /\ busDone = <<>>
  /\ stale = [s \in Sessions |-> 0]
  /\ cleared = <<>>
  /\ out = {}

closeVars == <<listening, closeSt, closeLeft, closeTicks, onDone, activeAt>>

\* The listener accepts a connection and hands it to serve.
Accept(s) ==
  /\ NoTicks
  /\ listening
  /\ conn[s] = "none"
  /\ conn' = [conn EXCEPT ![s] = "open"]
  /\ out' = {}
  /\ lastDone' = <<>>
  /\ UNCHANGED <<id, keepalive, timer, quiet, clients, keys, reg, pending, disc>>
  /\ fired' = <<>>
  /\ cleared' = <<>>
  /\ UNCHANGED stale
  /\ busDone' = <<>>
  /\ UNCHANGED closeVars

\* var setUpTimer: clearTimeout(client.timer) if one is set, then a fresh
\* setTimeout for the session's keepalive ka.
setUpTimer(tm, s, ka) == [tm EXCEPT ![s] = Delay(ka)]

\* A setUpTimer that arms the new timeout without clearing the old one.
unclearedKept(tm, s) == IF tm[s] # TimerOff THEN 1 ELSE 0

\* The timeouts of s that are still live after the first statement of
\* setUpTimer: if(client.timer) clearTimeout(client.timer)
uncleared(tm, s) == 0

\* setUpTimer has run for s: what it cleared and what it left live.
Rearmed(s) ==
  /\ cleared' = <<[client |-> s, was |-> timer[s]]>>
  /\ stale' = [stale EXCEPT ![s] = Min(@ + uncleared(timer, s), MaxStale)]

\* A connect handler that refuses the connection.
connectOutRefused(s, cid) ==
  {Msg(s, "connack", 1, <<>>), Msg(s, "clientConnected", 0, <<>>)}

\* A connect handler that announces the end of the session that held the id.
connectOutEvicting(s, cid) ==
  {Msg(s, "connack", 0, <<>>), Msg(s, "clientConnected", 0, <<>>)}
    \cup {Msg(t, "clientDisconnected", 0, <<>>) : t \in {clients[cid]} \ {NoClient, s}}

\* What the connect handler writes and emits:
\* client.connack({ returnCode: 0 }); that.emit("clientConnected", client)
connectOut(s, cid) == {Msg(s, "connack", 0, <<>>), Msg(s, "clientConnected", 0, <<>>)}

\* client.on("connect")
Connect(s, cid, ka) ==
  /\ Handles(s)
  /\ id' = [id EXCEPT ![s] = cid]
  /\ keepalive' = [keepalive EXCEPT ![s] = ka]
  /\ clients' = [clients EXCEPT ![cid] = s]
  /\ keys' = SetKey(keys, cid)
  /\ timer' = setUpTimer(timer, s, ka)
  /\ Rearmed(s)
  /\ quiet' = [quiet EXCEPT ![s] = 0]
  /\ out' = connectOut(s, cid)
  /\ lastDone' = <<>>
  /\ UNCHANGED <<conn, reg, pending, disc>>
  /\ fired' = <<>>
  /\ busDone' = <<>>
  /\ UNCHANGED closeVars

\* client.on("pingreq")
Pingreq(s) ==
  /\ Handles(s)
  /\ timer' = setUpTimer(timer, s, keepalive[s])
  /\ Rearmed(s)
  /\ quiet' = [quiet EXCEPT ![s] = 0]
  /\ out' = {Msg(s, "pingresp", 0, <<>>)}
  /\ lastDone' = <<>>
  /\ UNCHANGED <<conn, id, keepalive, clients, keys, reg, pending, disc>>
  /\ fired' = <<>>
  /\ busDone' = <<>>
  /\ UNCHANGED closeVars

\* ------------------------------------------------------------ the topic bus
\* ascoltatore.subscribe(topic, handler, done) has completed.
busSubscribe(r, t, s) == [r EXCEPT ![t][s] = @ + 1]

\* ascoltatore.unsubscribe(topic, handler, done) has completed; a handler
\* that is not registered on the topic is left alone.
busUnsubscribe(r, t, s) == [r EXCEPT ![t][s] = Max(@ - 1, 0)]

\* The handlers ascoltatore.publish(topic, payload) calls.
busListeners(r, t) == {s \in Sessions : r[t][s] > 0}

\* var forward = function(topic, payload)
forward(s, topic, payload) == Msg(s, "publish", topic, <<payload>>)

\* A publish handler that hands the bus a topic other than the packet's.
publishOutAnyTopic(s, t, p) ==
  {forward(x, t, p) : x \in UNION {busListeners(reg, u) : u \in Topics}}
    \cup {Msg(s, "published", t, <<p>>)}

\* What the publish handler of session s writes and emits.
publishOut(s, t, p) ==
  {forward(x, t, p) : x \in busListeners(reg, t)} \cup {Msg(s, "published", t, <<p>>)}

\* client.on("publish")
Publish(s, t, p) ==
  /\ Handles(s)
  /\ out' = publishOut(s, t, p)
  /\ quiet' = [quiet EXCEPT ![s] = 0]
  /\ lastDone' = <<>>
  /\ UNCHANGED <<conn, id, keepalive, timer, clients, keys, reg, pending, disc>>
  /\ fired' = <<>>
  /\ cleared' = <<>>
  /\ UNCHANGED stale
  /\ busDone' = <<>>
  /\ UNCHANGED closeVars

\* ------------------------------------------------- subscribe / unsubscribe
SubLists == UNION {[1..n -> [topic : Topics, qos : QosLevels]] : n \in 0..MaxSubs}

TopicLists == UNION {[1..n -> Topics] : n \in 0..MaxSubs}

\* A granted list that echoes the requested levels.
GrantedAsRequested(subs) == [i \in 1..Len(subs) |-> subs[i].qos]

\* var granted = packet.subscriptions.map(function(e) { return 0; })
Granted(subs) == [i \in 1..Len(subs) |-> 0]

\* A final callback that does not wait for the tasks.
JoinAtOnce(left) == TRUE

\* The final callback of async.parallel runs when no task is left.
JoinComplete(left) == left = {}

\* client.suback / client.unsuback of a request
Ack(r) ==
  IF r.kind = "sub"
  THEN Msg(r.client, "suback", r.messageId, r.granted)
  ELSE Msg(r.client, "unsuback", r.messageId, <<>>)

\* What the final callback of a request closes over, and the bus tasks
\* that have not called back yet.
Request(s, kind, mid, topics, granted) ==
  [client |-> s, kind |-> kind, messageId |-> mid, topics |-> topics,
   granted |-> granted, left |-> 1..Len(topics), acks |-> 0]

\* The handler starts one bus task per entry; with no entry the final
\* callback of async.parallel runs at once.
StartRequest(r) ==
  IF JoinComplete(r.left)
  THEN /\ out' = {Ack(r)}
       /\ lastDone' = <<[r EXCEPT !.acks = @ + 1]>>
       /\ UNCHANGED pending
  ELSE /\ Len(pending) < MaxPending
       /\ pending' = Append(pending, r)
       /\ out' = {}
       /\ lastDone' = <<>>

\* client.on("subscribe")
Subscribe(s, mid, subs) ==
  /\ Handles(s)
  /\ (subs = <<>> \/ Len(pending) < MaxPending)
  /\ StartRequest(Request(s, "sub", mid, [i \in 1..Len(subs) |-> subs[i].topic],
                          Granted(subs)))
  /\ quiet' = [quiet EXCEPT ![s] = 0]
  /\ UNCHANGED <<conn, id, keepalive, timer, clients, keys, reg, disc>>
  /\ fired' = <<>>
  /\ cleared' = <<>>
  /\ UNCHANGED stale
  /\ busDone' = <<>>
  /\ UNCHANGED closeVars

\* client.on("unsubscribe")
Unsubscribe(s, mid, topics) ==
  /\ Handles(s)
  /\ (topics = <<>> \/ Len(pending) < MaxPending)
  /\ StartRequest(Request(s, "unsub", mid, topics, <<>>))
  /\ quiet' = [quiet EXCEPT ![s] = 0]
  /\ UNCHANGED <<conn, id, keepalive, timer, clients, keys, reg, disc>>
  /\ fired' = <<>>
  /\ cleared' = <<>>
  /\ UNCHANGED stale
  /\ busDone' = <<>>
  /\ UNCHANGED closeVars

\* A task of the subscribe handler:
\* that.ascoltatore.subscribe(s.topic, forward, cb)
subscribeTask(r, rq, j) == busSubscribe(r, rq.topics[j], rq.client)

\* An unsubscribe task that drops every handler of the topic, not only
\* this session's forward.
unsubscribeTaskAll(r, rq, j) == [r EXCEPT ![rq.topics[j]] = [s \in Sessions |-> 0]]

\* A task of the unsubscribe handler:
\* that.ascoltatore.unsubscribe(topic, forward, cb)
unsubscribeTask(r, rq, j) == busUnsubscribe(r, rq.topics[j], rq.client)

RemoveAt(q, i) == [k \in 1..(Len(q) - 1) |-> IF k < i THEN q[k] ELSE q[k + 1]]

\* The bus completes task j of the i-th pending request and calls its cb.
BusTaskDone(i, j) ==
  /\ NoTicks
  /\ i \in 1..Len(pending)
  /\ j \in pending[i].left
  /\ LET r == pending[i]
         t == r.topics[j]
         r2 == [r EXCEPT !.left = @ \ {j}]
     IN /\ IF r.kind = "sub"
           THEN /\ reg[t][r.client] < MaxReg
                /\ reg' = subscribeTask(reg, r, j)
           ELSE reg' = unsubscribeTask(reg, r, j)
        /\ busDone' = <<[client |-> r.client, kind |-> r.kind, topic |-> t,
                         had |-> reg[t][r.client]]>>
        /\ IF JoinComplete(r2.left)
           THEN /\ out' = {Ack(r2)}
                /\ lastDone' = <<[r2 EXCEPT !.acks = @ + 1]>>
                /\ pending' = RemoveAt(pending, i)
           ELSE /\ out' = {}
                /\ lastDone' = <<>>
                /\ pending' = [pending EXCEPT ![i] = r2]
  /\ UNCHANGED <<conn, id, keepalive, timer, quiet, clients, keys, disc>>
  /\ fired' = <<>>
  /\ cleared' = <<>>
  /\ UNCHANGED stale
  /\ UNCHANGED closeVars

\* --------------------------------------------------------------- teardown
\* The idle time is counted for open connections only.
StillOpen(q, cn) == [s \in Sessions |-> IF cn[s] = "open" THEN q[s] ELSE 0]

\* A handler or timer callback that only calls that.closeConn(client).
Teardown(s, byTimer) ==
  LET b == closeConn(Broker, s)
  IN /\ clients' = b.clients
     /\ keys' = b.keys
     /\ conn' = b.conn
     /\ disc' = b.disc
     /\ out' = b.emitted
     /\ timer' = IF byTimer THEN [b.timer EXCEPT ![s] = TimerOff] ELSE b.timer
     /\ fired' = IF byTimer THEN <<[client |-> s, quiet |-> quiet[s]]>> ELSE <<>>
     /\ busDone' = <<>>
     /\ cleared' = <<>>
     /\ UNCHANGED stale
     /\ lastDone' = <<>>
     /\ quiet' = StillOpen(quiet, b.conn)
     /\ UNCHANGED <<id, keepalive, reg, pending>>
     /\ UNCHANGED closeVars

\* client.on("disconnect")
Disconnect(s) == Handles(s) /\ Teardown(s, FALSE)

\* client.on("error")
Error(s) == Handles(s) /\ Teardown(s, FALSE)

\* The callback of the session's setTimeout runs.
TimerFire(s) == NoTicks /\ timer[s] = 0 /\ Teardown(s, TRUE)

\* Time passes; a timer that is due runs before more time passes.
Tick ==
  /\ NoTicks
  /\ \A s \in Sessions : timer[s] # 0
  /\ \E s \in Sessions : timer[s] > 0
  /\ timer' = [s \in Sessions |-> IF timer[s] > 0 THEN Max(timer[s] - TickMs, 0) ELSE timer[s]]
  /\ quiet' = [s \in Sessions |->
                 IF timer[s] > 0 THEN Min(quiet[s] + TickMs, Delay(MaxKeepalive)) ELSE quiet[s]]
  /\ out' = {}
  /\ lastDone' = <<>>
  /\ UNCHANGED <<conn, id, keepalive, clients, keys, reg, pending, disc>>
  /\ fired' = <<>>
  /\ cleared' = <<>>
  /\ UNCHANGED stale
  /\ busDone' = <<>>
  /\ UNCHANGED closeVars

\* ------------------------------------------------------------------ close
\* The tasks of async.parallel in close, run one after the other over
\* Object.keys(that.clients) as it was when close was called.  Each task
\* looks its client up when it runs; closeConn(undefined) throws a
\* TypeError, which ends the run.  `started` counts the cbs handed to next.
RECURSIVE CloseRun(_, _, _)
CloseRun(b, ks, started) ==
  IF ks = <<>> THEN [b |-> b, started |-> started]
  ELSE LET c == b.clients[Head(ks)]
       IN IF c = NoClient
          THEN [b |-> b, started |-> started]
          ELSE CloseRun(closeConn(b, c), Tail(ks), started + 1)

\* The final callback of async.parallel in close:
\* try { that.server.close(callback) } catch(exception) { callback() }
\* A listener that is not running throws.
StopListener(c, st) ==
  IF listening
  THEN /\ listening' = FALSE
       /\ closeSt' = [st EXCEPT ![c] = "stopping"]
       /\ UNCHANGED onDone
  ELSE /\ closeSt' = [st EXCEPT ![c] = "done"]
       /\ onDone' = [onDone EXCEPT ![c] = @ + 1]
       /\ UNCHANGED listening

\* Server.prototype.close(callback), called for the c-th time
Close(c) ==
  /\ NoTicks
  /\ closeSt[c] = "idle"
  /\ \A d \in 1..(c - 1) : closeSt[d] # "idle"
  /\ LET run == CloseRun(Broker, keys, 0)
         b == run.b
     IN /\ clients' = b.clients
        /\ keys' = b.keys
        /\ conn' = b.conn
        /\ disc' = b.disc
        /\ out' = b.emitted
        /\ timer' = b.timer
        /\ quiet' = StillOpen(quiet, b.conn)
        /\ activeAt' = [activeAt EXCEPT ![c] = {s \in Sessions : conn[s] = "open" /\ id[s] # NoId}]
        /\ closeLeft' = [closeLeft EXCEPT ![c] = Len(keys)]
        /\ closeTicks' = [closeTicks EXCEPT ![c] = run.started]
        /\ IF Len(keys) = 0
           THEN StopListener(c, closeSt)
           ELSE /\ closeSt' = [closeSt EXCEPT ![c] = "tearing"]
                /\ UNCHANGED <<listening, onDone>>
  /\ lastDone' = <<>>
  /\ fired' = <<>>
  /\ cleared' = <<>>
  /\ UNCHANGED stale
  /\ busDone' = <<>>
  /\ UNCHANGED <<id, keepalive, reg, pending>>

\* A cb queued by next(callback) in closeConn runs.
CloseTaskDone(c) ==
  /\ closeTicks[c] > 0
  /\ closeTicks' = [closeTicks EXCEPT ![c] = @ - 1]
  /\ closeLeft' = [closeLeft EXCEPT ![c] = @ - 1]
  /\ IF closeLeft[c] = 1
     THEN StopListener(c, closeSt)
     ELSE UNCHANGED <<listening, closeSt, onDone>>
  /\ out' = {}
  /\ lastDone' = <<>>
  /\ fired' = <<>>
  /\ cleared' = <<>>
  /\ UNCHANGED stale
  /\ busDone' = <<>>
  /\ UNCHANGED <<conn, id, keepalive, timer, quiet, clients, keys, reg, pending,
                 activeAt, disc>>

\* The listener has stopped and calls the callback given to server.close.
ListenerStopped(c) ==
  /\ NoTicks
  /\ closeSt[c] = "stopping"
  /\ closeSt' = [closeSt EXCEPT ![c] = "done"]
  /\ onDone' = [onDone EXCEPT ![c] = @ + 1]
  /\ out' = {}
  /\ lastDone' = <<>>
  /\ fired' = <<>>
  /\ cleared' = <<>>
  /\ UNCHANGED stale
  /\ busDone' = <<>>
  /\ UNCHANGED <<conn, id, keepalive, timer, quiet, clients, keys, reg, pending,
                 listening, closeLeft, closeTicks, activeAt, disc>>

\* The events of a session's life: connection, keepalive, teardown, shutdown.
NextSession ==
  \/ \E s \in Sessions : Accept(s)
  \/ \E s \in Sessions, cid \in Ids, ka \in Keepalives : Connect(s, cid, ka)
  \/ \E s \in Sessions : Pingreq(s)
  \/ \E s \in Sessions, t \in Topics, p \in Payloads : Publish(s, t, p)
  \/ \E s \in Sessions : Disconnect(s)
  \/ \E s \in Sessions : Error(s)
  \/ \E s \in Sessions : TimerFire(s)
  \/ Tick
  \/ \E c \in 1..MaxClose : Close(c)
  \/ \E c \in 1..MaxClose : CloseTaskDone(c)
  \/ \E c \in 1..MaxClose : ListenerStopped(c)

\* The events of topic routing and the teardowns that interleave.
NextBus ==
  \/ \E s \in Sessions, t \in Topics, p \in Payloads : Publish(s, t, p)
  \/ \E s \in Sessions, mid \in MsgIds, subs \in SubLists : Subscribe(s, mid, subs)
  \/ \E s \in Sessions, mid \in MsgIds, topics \in TopicLists : Unsubscribe(s, mid, topics)
  \/ \E i \in 1..MaxPending, j \in 1..MaxSubs : BusTaskDone(i, j)
  \/ \E s \in Sessions : Disconnect(s)
  \/ \E s \in Sessions : Error(s)

Next == NextSession \/ NextBus

\* Every event.
Spec == Init /\ [][Next]_vars

\* The broker with clients that never subscribe or unsubscribe.
SpecSession == Init /\ [][NextSession]_vars

\* The state after the sessions in `connected` have each sent a connect
\* packet with their own client id and the longest keepalive, and the
\* other sessions have been accepted.
AfterConnects(connected) ==
  /\ conn = [s \in Sessions |-> "open"]
  /\ id = [s \in Sessions |-> IF s \in connected THEN s ELSE NoId]
  /\ keepalive = [s \in Sessions |-> IF s \in connected THEN MaxKeepalive ELSE NoKeepalive]
  /\ timer = [s \in Sessions |-> IF s \in connected THEN Delay(MaxKeepalive) ELSE TimerOff]
  /\ quiet = [s \in Sessions |-> 0]
  /\ clients = [i \in Ids |-> IF i \in connected THEN i ELSE NoClient]
  /\ keys = SortedSeq(connected)
  /\ reg = [t \in Topics |-> [s \in Sessions |-> 0]]
  /\ pending = <<>>
  /\ lastDone = <<>>
  /\ listening = TRUE
  /\ closeSt = [c \in 1..MaxClose |-> "idle"]
  /\ closeLeft = [c \in 1..MaxClose |-> 0]
  /\ closeTicks = [c \in 1..MaxClose |-> 0]
  /\ onDone = [c \in 1..MaxClose |-> 0]
  /\ activeAt = [c \in 1..MaxClose |-> {}]
  /\ disc = [s \in Sessions |-> 0]
  /\ fired = <<>>
  /\ busDone = <<>>
  /\ stale = [s \in Sessions |-> 0]
  /\ cleared = <<>>
  /\ out = {}

InitBus == AfterConnects(Sessions \cap Ids)

\* Topic routing among connected sessions, within one clock step and with
\* the broker never shut down.
SpecBus == InitBus /\ [][NextBus]_vars

\* The event loop runs every queued cb and the listener reports its stop.
FairSession ==
  /\ SpecSession
  /\ WF_vars(\E c \in 1..MaxClose : CloseTaskDone(c))
  /\ WF_vars(\E c \in 1..MaxClose : ListenerStopped(c))

\* ------------------------------------------------------------------ claims
IsAck(m) == m.cmd \in {"suback", "unsuback"}

\* C5: a publish of payload p on topic t reaches the forward callback of
\* every session registered on t with (t, p), and reaches no session that
\* is registered only on other topics.
PublishReachesSubscribers ==
  \A m \in out : m.cmd = "published" =>
    /\ \A s \in Sessions : reg[m.arg][s] > 0 => forward(s, m.arg, m.list[1]) \in out
    /\ \A f \in out : f.cmd = "publish" =>
         /\ f.arg = m.arg
         /\ f.list = m.list
         /\ reg[m.arg][f.to] > 0

\* A publish on a topic one session is registered on while another session
\* is registered only on a different topic.
PublishReachesSubscribersWitness ==
  \E m \in out, a, b \in Sessions, u \in Topics :
    /\ m.cmd = "published"
    /\ reg[m.arg][a] > 0
    /\ forward(a, m.arg, m.list[1]) \in out
    /\ reg[m.arg][b] = 0
    /\ u # m.arg
    /\ reg[u][b] > 0

\* C6: the suback of a subscribe request carries the request's id and one
\* granted level per requested entry, every level 0.
SubackGrantsZero ==
  \A k \in 1..Len(lastDone) : lastDone[k].kind = "sub" =>
    out = {Msg(lastDone[k].client, "suback", lastDone[k].messageId,
               [i \in 1..Len(lastDone[k].topics) |-> 0])}

\* A subscribe request with two entries has been acknowledged.
SubackGrantsZeroWitness ==
  /\ Len(lastDone) = 1
  /\ lastDone[1].kind = "sub"
  /\ Len(lastDone[1].topics) = 2
  /\ \E m \in out : m.cmd = "suback" /\ m.list = <<0, 0>>

\* C7: a subscribe or unsubscribe request is acknowledged once, and only
\* when every bus task started for it has completed.
AckAfterAllTasks ==
  /\ \A i \in 1..Len(pending) : pending[i].left # {} /\ pending[i].acks = 0
  /\ \A k \in 1..Len(lastDone) :
       /\ lastDone[k].left = {}
       /\ lastDone[k].acks = 1
       /\ out = {Ack(lastDone[k])}
  /\ \A m \in out : IsAck(m) => Len(lastDone) = 1

\* A request with two entries has been acknowledged after another session
\* was torn down, its last task being the first entry.
AckAfterAllTasksWitness ==
  /\ Len(lastDone) = 1
  /\ Len(lastDone[1].topics) = 2
  /\ Len(busDone) = 1
  /\ busDone[1].topic = lastDone[1].topics[1]
  /\ lastDone[1].topics[1] # lastDone[1].topics[2]
  /\ \E s \in Sessions : s # lastDone[1].client /\ conn[s] = "ended"

\* C8: an unsubscribe task for a topic the session is not registered on
\* changes no registration of any session, and the request is still
\* acknowledged with an unsuback that carries its id.
UnsubscribeUnknownTopic ==
  /\ [][\A k \in 1..Len(busDone') :
          (busDone'[k].kind = "unsub" /\ busDone'[k].had = 0) => reg' = reg]_vars
  /\ [](\A k \in 1..Len(lastDone) : lastDone[k].kind = "unsub" =>
          Msg(lastDone[k].client, "unsuback", lastDone[k].messageId, <<>>) \in out)

\* An unsubscribe of a topic the session was not registered on has been
\* acknowledged while another session is registered on that topic.
UnsubscribeUnknownTopicWitness ==
  /\ Len(busDone) = 1
  /\ busDone[1].kind = "unsub"
  /\ busDone[1].had = 0
  /\ \E s \in Sessions : reg[busDone[1].topic][s] > 0
  /\ Len(lastDone) = 1
  /\ \E m \in out : m.cmd = "unsuback" /\ m.arg = lastDone[1].messageId

\* C1: every call of close eventually invokes its callback, and invokes it
\* once, whatever state the registry is in when close is called.
CloseCallsBackOnce ==
  /\ \A c \in 1..MaxClose : [](onDone[c] <= 1)
  /\ \A c \in 1..MaxClose : (closeSt[c] # "idle") ~> (onDone[c] = 1)

\* C2: when the callback of close fires, every session that was connected
\* and open when close was called has had its connection ended and its
\* clientDisconnected notification emitted.
CloseEndsActiveSessions ==
  \A c \in 1..MaxClose : onDone[c] >= 1 =>
    \A s \in activeAt[c] : conn[s] = "ended" /\ disc[s] >= 1

\* C3: when the keepalive timer of a connected session expires, the session
\* is closed: it is no longer in the registry, its connection is ended and
\* exactly one clientDisconnected has been emitted for it.
ExpiryClosesSession ==
  \A k \in 1..Len(fired) :
    LET s == fired[k].client
    IN id[s] # NoId =>
         /\ s \notin Range(clients)
         /\ conn[s] = "ended"
         /\ disc[s] = 1

\* C4: a session is torn down by timer expiry only when it has sent none
\* of connect, pingreq, publish, subscribe, unsubscribe for a whole
\* keepalive window.
ExpiryOnlyWhenQuiet ==
  \A k \in 1..Len(fired) :
    fired[k].quiet >= Delay(keepalive[fired[k].client])

\* C9: a session is a value of the registry exactly if it has completed a
\* connect and has not been torn down.
RegistryHoldsLiveSessions ==
  \A s \in Sessions :
    s \in Range(clients) <=> (id[s] # NoId /\ conn[s] = "open")

\* C10: a session that connected with keepalive 0 is never torn down by
\* timer expiry.
ZeroKeepaliveNeverExpires ==
  \A k \in 1..Len(fired) : keepalive[fired[k].client] # 0

\* The step is one run of closeConn on session s and on no other session.
ClosesOnly(s) == out' = {Msg(s, "clientDisconnected", 0, <<>>)}

\* C11: the teardown of a session S leaves every other session T as it
\* was: every registry entry that holds T, T's timer and T's connection are
\* unchanged, also when S and T connected with the same client id.
TeardownLeavesOthers ==
  [][\A s \in Sessions : ClosesOnly(s) =>
       \A t \in Sessions \ {s} :
         /\ conn'[t] = conn[t]
         /\ timer'[t] = timer[t]
         /\ \A i \in Ids : clients[i] = t => clients'[i] = t]_vars

\* C12: a publish on topic t calls a session's forward only if the session's
\* latest completed request for t was a subscribe, also after repeated
\* subscribes to t: once an unsubscribe request of the session has completed,
\* the session is not among the handlers a publish on any of the request's
\* topics calls.
NoForwardAfterUnsubscribe ==
  \A k \in 1..Len(lastDone) :
    lastDone[k].kind = "unsub" =>
      \A j \in 1..Len(lastDone[k].topics) :
        lastDone[k].client \notin busListeners(reg, lastDone[k].topics[j])

ConnectRegisters ==
  [][\A s \in Sessions : (id[s] = NoId /\ id'[s] # NoId) =>
       /\ clients'[id'[s]] = s
       /\ keepalive'[s] \in Keepalives
       /\ timer'[s] = Delay(keepalive'[s])
       /\ out' = {Msg(s, "connack", 0, <<>>), Msg(s, "clientConnected", 0, <<>>)}]_vars

\* The first session has just connected, for the first time in the run.
ConnectRegistersWitness ==
  \E s \in Sessions :
    /\ id[s] # NoId
    /\ keys = <<id[s]>>
    /\ clients[id[s]] = s
    /\ timer[s] = Delay(keepalive[s])
    /\ Msg(s, "connack", 0, <<>>) \in out
    /\ \A t \in Sessions : disc[t] = 0
    /\ \A t \in Sessions \ {s} : id[t] = NoId

\* C15: a connect with an id whose registry entry is another session that
\* is still open makes the entry the new session and leaves the other
\* session's connection and timer as they were; no clientDisconnected is
\* emitted for the other session.
ConnectOverwritesEntry ==
  [][\A s \in Sessions : \A t \in Sessions \ {s} : \A i \in Ids :
       (clients[i] = t /\ conn[t] = "open" /\ Msg(s, "connack", 0, <<>>) \in out' /\ id'[s] = i) =>
         /\ clients'[i] = s
         /\ conn'[t] = "open"
         /\ timer'[t] = timer[t]
         /\ disc'[t] = disc[t]
         /\ \A m \in out' : ~(m.to = t /\ m.cmd = "clientDisconnected")]_vars

\* A session has just connected with the id of another session that is
\* open with its timer running, and holds the registry entry now.
ConnectOverwritesEntryWitness ==
  \E s \in Sessions : \E t \in Sessions \ {s} :
    /\ Msg(s, "connack", 0, <<>>) \in out
    /\ id[s] # NoId
    /\ id[t] = id[s]
    /\ clients[id[s]] = s
    /\ conn[t] = "open"
    /\ timer[t] > 0
    /\ disc[t] = 0

\* C16: closeConn on a session without an id leaves the registry and every
\* timer unchanged and still ends the connection and emits
\* clientDisconnected; on a session with an id it clears the session's
\* timer and removes the registry entry of its id; and a closeConn on a
\* session that was closed before changes no registry entry and no timer.
CloseConnEffects ==
  [][\A s \in Sessions : ClosesOnly(s) =>
       /\ conn'[s] = "ended"
       /\ id[s] = NoId =>
            /\ clients' = clients
            /\ \A t \in Sessions : timer'[t] = timer[t] \/ (t = s /\ fired' # <<>>)
       /\ id[s] # NoId =>
            /\ timer'[s] = TimerOff
            /\ clients'[id[s]] = NoClient
       /\ conn[s] = "ended" =>
            /\ clients' = clients
            /\ \A t \in Sessions : timer'[t] = timer[t] \/ (t = s /\ fired' # <<>>)]_vars

\* C17: clientDisconnected is emitted at most once for a session, whatever
\* sequence of disconnect, error, timer expiry, close, packets before
\* connect and repeated connects the session goes through.
DisconnectedOnce == \A s \in Sessions : disc[s] <= 1

\* C18: nothing is written to the connection of a session that has been
\* torn down: no suback or unsuback of a request that was pending at the
\* teardown, and no message forwarded from a bus registration made before.
NoWriteAfterEnd ==
  \A m \in out :
    m.cmd \in {"suback", "unsuback", "publish"} => conn[m.to] = "open"

\* C19: when the callback of close is invoked the registry is empty and no
\* session's timer is armed.
CloseLeavesNothing ==
  [][\A c \in 1..MaxClose : onDone'[c] > onDone[c] =>
       /\ \A i \in Ids : clients'[i] = NoClient
       /\ \A s \in Sessions : timer'[s] = TimerOff]_vars

\* C20: a pingreq, publish, subscribe or unsubscribe of a session that has
\* no id has no effect: the session has no timer armed, no registration on
\* the bus, no registry entry, nothing it published is on the bus, and it
\* is not torn down by a timer.
PendingPacketsIgnored ==
  \A s \in Sessions : id[s] = NoId =>
    /\ timer[s] = TimerOff
    /\ \A t \in Topics : reg[t][s] = 0
    /\ s \notin Range(clients)
    /\ \A m \in out : ~(m.to = s /\ m.cmd = "published")
    /\ \A k \in 1..Len(fired) : fired[k].client # s
====
